---- MODULE Spec2Model ----
(***************************************************************************)
(* Backward-paged historical tick collection of the IBKR data collectors.  *)
(*                                                                         *)
(*   SpecA3  Activity3DataCollector._collect_trade_chunk                   *)
(*           (_collect_bbo_tick_data is the same loop over bid_ask_ticks)  *)
(*   SpecA3TZ  the same, on a collector outside US/Eastern                 *)
(*   FairA3  SpecA3 with a collector thread that keeps running             *)
(*   SpecA1  Activity1DataCollector._collect_historical_trades             *)
(*   SpecBBO Activity3DataCollector._collect_bbo_minute_data               *)
(*   SpecA1Bars  Activity1DataCollector._collect_historical_bars           *)
(*   SpecA2  Activity2HedgingDataCollector.collect_hedging_portfolio_data  *)
(*   SpecA2Trades  Activity2HedgingDataCollector._collect_trades           *)
(*   SpecTD  Activity3DataCollector._collect_trade_data                    *)
(*                                                                         *)
(* Two threads run: the collector thread (the paging loop) and the API     *)
(* thread that calls the EWrapper callbacks.  Times are whole seconds on   *)
(* the collector's clock (tick.time is an integer number of seconds).      *)
(***************************************************************************)
EXTENDS Integers, Sequences, FiniteSets

(* ---- bounds ---------------------------------------------------------- *)
\* numberOfTicks=1000 of the requests, scaled down
PageLimit == 2
\* max_pages = 10 of _collect_trade_chunk, scaled down
MaxPages == 3
\* tick times of the gateway's history are 1..MaxTime
MaxTime == 3
\* at most this many error notifications per run
MaxErrors == 1
\* the bar loop's window ends at day MaxDay; the gateway has one bar per day 1..MaxDay
MaxDay == 5
\* timedelta(days=7) and durationStr="7 D" of _collect_bbo_minute_data, scaled down
BlockDays == 3
\* the four entries of intervals in Activity 2's _collect_bars, scaled down
A2Intervals == 1
\* hash(...) % 10000 takes the values 0..MaxHash
MaxHash == 1
\* timedelta(days=30) of _collect_trade_data, scaled down
ChunkDays == 2
\* the most hours the collector's time zone is away from US/Eastern, scaled down
MaxTz == 1

(* ---- program constants ------------------------------------------------ *)
TradeReqIdBase == 2000
ChunkReqIdStride == 100
A1ReqIdBase == 1000
A1Chunks == 2
\* the comment of that loop: "Collect up to 10,000 trades (10 x 1000 limit)"
A1CommentPages == 10
BboReqIdBase == 3000
\* req_id = 2000 and the four entries of intervals in _collect_historical_bars
A1BarReqId == 2000
A1Intervals == 4
\* durationStr="1 D"
A1BarDays == 1
\* for chunk in range(1) of Activity 2's _collect_trades; duration = "1 D"
A2Chunks == 1
\* the comment of that loop: "Up to 5,000 trades"
A2CommentPages == 5
\* while ... and chunk_num < 3 of _collect_trade_data
MaxChunks == 3
A2BarDays == 1
\* timedelta(days=1) added to chunk_end for the next block
DayStep == 1
\* the longest window the MaxChunks chunks are built for ("three months")
TdWindow == MaxChunks * ChunkDays
PacingCode == 162
\* "No security definition found": the request will never be answered
TerminalCode == 200
\* "Market data farm connection is OK"
InfoCode == 2104
\* stands for a tick dict without the 'reqId' key
NoKey == -2
\* the codes for which Activity3DataCollector.error sets request_complete
CompletionCodes == {162, 200, 354, 10147, 10148, 2104, 2106}
\* the codes the gateway sends in the model: pacing, terminal, informational, other
ErrorCodes == {162, 200, 2104, 321}

VARIABLES
    gw_store,            \* gateway: its tick history, a time-sorted sequence of times
    gw_reqs,             \* gateway: the requests received, in order of issue
    cb_sleeping,         \* API thread is inside time.sleep(10) of Activity1's error()
    historical_ticks,    \* self.historical_ticks
    request_complete,    \* self.request_complete (threading.Event)
    error_messages,      \* self.error_messages (Activity 1: the logger.error lines)
    pc,                  \* position of the collector thread
    start_date, end_date,
    current_end, page_num, req_id, initial_tick_count, success,
    chunk_trades,
    chunk,               \* loop variable of Activity 1's for chunk in range(2)
    exit_log,            \* the logger line written when the loop was left
    historical_bars,     \* self.historical_bars
    all_bbo_bars, current_start, chunk_end, block_num, initial_bar_count,
    current_instrument,  \* self.current_instrument (Activity 2)
    data_storage,        \* self.data_storage (Activity 2)
    instrument_num,      \* position of Activity 2's loop over contracts.items()
    interval_num,        \* i of Activity 2's loop over the bar intervals
    hash_of,             \* hash() of this process, reduced % 10000
    chunk_num,           \* chunk_num of _collect_trade_data
    all_trades,          \* all_trades of _collect_trade_data
    trade_chunks,        \* the (current_start, chunk_end) of each _collect_trade_chunk call
    tz_offset            \* hours the collector's local time is ahead of US/Eastern

gwVars == <<gw_store, gw_reqs, cb_sleeping>>
cbVars == <<historical_ticks, request_complete, error_messages>>
loopVars == <<pc, start_date, end_date, current_end, page_num, req_id,
              initial_tick_count, success, chunk_trades, chunk, exit_log>>
\* the state of the bar loops and of Activity 2; the tick paging loops leave it alone
barVars == <<historical_bars, all_bbo_bars, current_start, chunk_end, block_num,
             initial_bar_count>>
a2Vars == <<current_instrument, data_storage, instrument_num, interval_num, hash_of>>
tdVars == <<chunk_num, all_trades, trade_chunks>>
envVars == <<tz_offset>>
extVars == <<barVars, a2Vars, tdVars, envVars>>
vars == <<gwVars, cbVars, loopVars, extVars>>

(* ---- helpers ---------------------------------------------------------- *)
RECURSIVE MinTime(_)
MinTime(s) ==
    IF Len(s) = 1 THEN s[1].time
    ELSE LET m == MinTime(Tail(s)) IN IF s[1].time <= m THEN s[1].time ELSE m

RECURSIVE Repeat(_, _)
Repeat(t, n) == IF n = 0 THEN <<>> ELSE <<t>> \o Repeat(t, n - 1)

RECURSIVE StoreOf(_, _)
\* the sorted history with cnt[t] ticks at second t, for t = from..MaxTime
StoreOf(cnt, from) ==
    IF from > MaxTime THEN <<>> ELSE Repeat(from, cnt[from]) \o StoreOf(cnt, from + 1)

\* the histories of the model: each second holds no tick, one tick or a page of ticks
Stores == { StoreOf(cnt, 1) : cnt \in [1..MaxTime -> {0, 1, PageLimit}] }

\* number of ticks of the history at or before endTime
CountUpTo(endTime) == Cardinality({k \in 1..Len(gw_store) : gw_store[k] <= endTime})

\* the page the gateway serves for endTime: the last PageLimit ticks at or
\* before endTime, oldest first, each tick named by its index in the history
PageOf(endTime) ==
    LET k == CountUpTo(endTime)
        lo == IF k > PageLimit THEN k - PageLimit + 1 ELSE 1
    IN [j \in 1..(k - lo + 1) |-> lo + j - 1]

\* the paging call has not returned (or raised) yet; the model ends there
Running == pc \notin {"done", "raised"}

\* the id an error notification carries: the latest request's, -1 before any
ErrorReqId == IF Len(gw_reqs) = 0 THEN -1 ELSE gw_reqs[Len(gw_reqs)].reqId

\* 'time': datetime.fromtimestamp(tick.time): the tick's time on the collector's
\* local clock.  Gateway times (gw_store, endTime) are US/Eastern times.
fromtimestamp(t) == t + tz_offset

(* ---- API thread: EWrapper callbacks ----------------------------------- *)
\* the dicts appended for ticks sent+1..sent+n of request i
TickDicts(i, n, key) ==
    LET page == PageOf(gw_reqs[i].endTime)
    IN [j \in 1..n |-> [reqId |-> key,
                        time |-> fromtimestamp(gw_store[page[gw_reqs[i].sent + j]]),
                        seq |-> page[gw_reqs[i].sent + j]]]

\* Activity3DataCollector.historicalTicksLast / Activity1DataCollector.historicalTicksLast
historicalTicksLast(i, n, done) ==
    /\ Running
    /\ ~cb_sleeping
    /\ ~gw_reqs[i].done
    /\ n <= Len(PageOf(gw_reqs[i].endTime)) - gw_reqs[i].sent
    /\ done => n = Len(PageOf(gw_reqs[i].endTime)) - gw_reqs[i].sent
    /\ n > 0 \/ done
    /\ historical_ticks' = historical_ticks \o TickDicts(i, n, gw_reqs[i].reqId)
    /\ request_complete' = (request_complete \/ done)
    /\ gw_reqs' = [gw_reqs EXCEPT ![i].sent = @ + n, ![i].done = done]
    /\ UNCHANGED <<gw_store, cb_sleeping, error_messages, loopVars>>
    /\ UNCHANGED extVars

\* Activity3DataCollector.error
A3_error_sets(errorCode) == errorCode \in CompletionCodes

A3_error(reqId, errorCode) ==
    /\ Running
    /\ Len(error_messages) < MaxErrors
    /\ error_messages' = Append(error_messages, [reqId |-> reqId, errorCode |-> errorCode])
    /\ request_complete' = (request_complete \/ A3_error_sets(errorCode))
    /\ UNCHANGED <<gwVars, historical_ticks, loopVars>>
    /\ UNCHANGED extVars

(* ---- collector thread: _collect_trade_chunk --------------------------- *)
\* the ticks of this request that were appended since the request was prepared
PageTicks ==
    SelectSeq(SubSeq(historical_ticks, initial_tick_count + 1, Len(historical_ticks)),
              LAMBDA t : t.reqId = req_id)

\* while page_num < max_pages: clear the event, note the list length, pick the id
A3_Begin ==
    /\ pc = "begin"
    /\ IF page_num < MaxPages
       THEN /\ request_complete' = FALSE
            /\ initial_tick_count' = Len(historical_ticks)
            /\ req_id' = TradeReqIdBase + (0 * ChunkReqIdStride) + page_num
            /\ pc' = "request"
       ELSE /\ pc' = "done"
            /\ UNCHANGED <<request_complete, initial_tick_count, req_id>>
    /\ UNCHANGED <<gwVars, historical_ticks, error_messages, start_date, end_date,
                   current_end, page_num, success, chunk_trades, chunk, exit_log>>
    /\ UNCHANGED extVars

\* self.reqHistoricalTicks(reqId=req_id, endDateTime=current_end, numberOfTicks=1000)
A3_Request ==
    /\ pc = "request"
    /\ gw_reqs' = Append(gw_reqs, [reqId |-> req_id, endTime |-> current_end,
                                   sent |-> 0, done |-> FALSE])
    /\ pc' = "wait"
    /\ UNCHANGED <<gw_store, cb_sleeping, cbVars, start_date, end_date, current_end,
                   page_num, req_id, initial_tick_count, success, chunk_trades, chunk, exit_log>>
    /\ UNCHANGED extVars

\* the request call raises: except Exception -> logger.error, break
A3_RequestRaises ==
    /\ pc = "request"
    /\ exit_log' = "error"
    /\ pc' = "done"
    /\ UNCHANGED <<gwVars, cbVars, start_date, end_date, current_end, page_num,
                   req_id, initial_tick_count, success, chunk_trades, chunk>>
    /\ UNCHANGED extVars

\* success = self.request_complete.wait(timeout=20), the event is set
A3_WaitSet ==
    /\ pc = "wait"
    /\ request_complete
    /\ success' = TRUE
    /\ pc' = "process"
    /\ UNCHANGED <<gwVars, cbVars, start_date, end_date, current_end, page_num,
                   req_id, initial_tick_count, chunk_trades, chunk, exit_log>>
    /\ UNCHANGED extVars

\* the event is cleared again on the way into the wait, which then times out
A3_WaitTimeout_clearsFirst ==
    /\ pc = "wait"
    /\ request_complete' = FALSE
    /\ success' = FALSE
    /\ exit_log' = "timeout"
    /\ pc' = "done"
    /\ UNCHANGED <<gwVars, historical_ticks, error_messages, start_date, end_date,
                   current_end, page_num, req_id, initial_tick_count, chunk_trades, chunk>>
    /\ UNCHANGED extVars

\* a wait without a timeout: it returns only when the event is set
A3_WaitTimeout_never ==
    /\ pc = "wait"
    /\ FALSE
    /\ UNCHANGED vars

\* the wait times out: logger.warning, break
A3_WaitTimeout ==
    /\ pc = "wait"
    /\ ~request_complete
    /\ success' = FALSE
    /\ exit_log' = "timeout"
    /\ pc' = "done"
    /\ UNCHANGED <<gwVars, cbVars, start_date, end_date, current_end, page_num,
                   req_id, initial_tick_count, chunk_trades, chunk>>
    /\ UNCHANGED extVars

\* the boundary test after a full page
A3_PastStart(new_end) == new_end < start_date

\* a full page read as a short one
A3_ShortPage_offByOne(page_ticks) == Len(page_ticks) <= PageLimit

\* if len(page_ticks) < 1000
A3_ShortPage_lowLimit(page_ticks) == Len(page_ticks) < PageLimit - 1
A3_ShortPage(page_ticks) == Len(page_ticks) < PageLimit

\* a page cut at the start of the window
A3_Kept_truncated(page_ticks) == SelectSeq(page_ticks, LAMBDA t : t.time >= start_date)

\* what the loop appends to chunk_trades for a page
A3_Kept(page_ticks) == page_ticks

\* lines 273-290: take the page, test for a short page, move the cursor
A3_Process ==
    /\ pc = "process"
    /\ LET page_ticks == PageTicks
       IN /\ chunk_trades' = chunk_trades \o A3_Kept(page_ticks)
          /\ IF A3_ShortPage(page_ticks)
             THEN /\ exit_log' = "end_of_data"
                  /\ pc' = "done"
                  /\ UNCHANGED current_end
             ELSE IF Len(page_ticks) > 0
                  THEN /\ current_end' = MinTime(page_ticks) - 1
                       /\ IF A3_PastStart(MinTime(page_ticks) - 1)
                          THEN exit_log' = "boundary" /\ pc' = "done"
                          ELSE pc' = "pace" /\ UNCHANGED exit_log
                  ELSE /\ pc' = "pace"
                       /\ UNCHANGED <<current_end, exit_log>>
    /\ UNCHANGED <<gwVars, cbVars, start_date, end_date, page_num, req_id,
                   initial_tick_count, success, chunk>>
    /\ UNCHANGED extVars

\* the loop goes round without its pacing step
A3_Pace_skipped ==
    /\ pc = "pace"
    /\ pc' = "begin"
    /\ UNCHANGED <<gwVars, cbVars, start_date, end_date, current_end, page_num, req_id,
                   initial_tick_count, success, chunk_trades, chunk, exit_log>>
    /\ UNCHANGED extVars

\* page_num += 1; time.sleep(2)
A3_Pace ==
    /\ pc = "pace"
    /\ page_num' = page_num + 1
    /\ pc' = "begin"
    /\ UNCHANGED <<gwVars, cbVars, start_date, end_date, current_end, req_id,
                   initial_tick_count, success, chunk_trades, chunk, exit_log>>
    /\ UNCHANGED extVars


(* ---- Activity 1: callbacks -------------------------------------------- *)
\* Activity1DataCollector.historicalTicks: the dicts it appends have no 'reqId'
historicalTicks(i, n, done) ==
    /\ Running
    /\ ~cb_sleeping
    /\ ~gw_reqs[i].done
    /\ n <= Len(PageOf(gw_reqs[i].endTime)) - gw_reqs[i].sent
    /\ done => n = Len(PageOf(gw_reqs[i].endTime)) - gw_reqs[i].sent
    /\ n > 0 \/ done
    /\ historical_ticks' = historical_ticks \o TickDicts(i, n, NoKey)
    /\ request_complete' = (request_complete \/ done)
    /\ gw_reqs' = [gw_reqs EXCEPT ![i].sent = @ + n, ![i].done = done]
    /\ UNCHANGED <<gw_store, cb_sleeping, error_messages, loopVars>>
    /\ UNCHANGED extVars

\* Activity1DataCollector.error (Activity2HedgingDataCollector.error is the same):
\* log the error; on 162 the API thread sleeps 10 s inside the callback
A1_error(reqId, errorCode) ==
    /\ Running
    /\ ~cb_sleeping
    /\ Len(error_messages) < MaxErrors
    /\ error_messages' = Append(error_messages, [reqId |-> reqId, errorCode |-> errorCode])
    /\ cb_sleeping' = (errorCode = PacingCode)
    /\ UNCHANGED <<gw_store, gw_reqs, historical_ticks, request_complete, loopVars>>
    /\ UNCHANGED extVars

\* time.sleep(10) of error() returns
A1_errorReturn ==
    /\ Running
    /\ cb_sleeping
    /\ cb_sleeping' = FALSE
    /\ UNCHANGED <<gw_store, gw_reqs, cbVars, loopVars>>
    /\ UNCHANGED extVars

(* ---- Activity 1: _collect_historical_trades --------------------------- *)
\* for chunk in range(2): self.request_complete.clear()
A1_Begin ==
    /\ pc = "begin"
    /\ IF chunk < A1Chunks
       THEN /\ request_complete' = FALSE
            /\ req_id' = A1ReqIdBase + chunk
            /\ pc' = "request"
       ELSE /\ pc' = "done"
            /\ UNCHANGED <<request_complete, req_id>>
    /\ UNCHANGED <<gwVars, historical_ticks, error_messages, start_date, end_date,
                   current_end, page_num, initial_tick_count, success, chunk_trades,
                   chunk, exit_log>>
    /\ UNCHANGED extVars

\* self.reqHistoricalTicks(reqId=req_id + chunk, endDateTime=current_end, numberOfTicks=1000)
A1_Request ==
    /\ pc = "request"
    /\ gw_reqs' = Append(gw_reqs, [reqId |-> req_id, endTime |-> current_end,
                                   sent |-> 0, done |-> FALSE])
    /\ pc' = "wait"
    /\ UNCHANGED <<gw_store, cb_sleeping, cbVars, start_date, end_date, current_end,
                   page_num, req_id, initial_tick_count, success, chunk_trades, chunk,
                   exit_log>>
    /\ UNCHANGED extVars

\* self.request_complete.wait(timeout=5): the value it returns is not used
A1_Wait ==
    /\ pc = "wait"
    /\ success' = request_complete
    /\ pc' = "check"
    /\ UNCHANGED <<gwVars, cbVars, start_date, end_date, current_end, page_num,
                   req_id, initial_tick_count, chunk_trades, chunk, exit_log>>
    /\ UNCHANGED extVars

\* t['reqId'] for every dict of the list: KeyError when one has no such key
A1_KeyError == \E k \in 1..Len(historical_ticks) : historical_ticks[k].reqId = NoKey

\* [t for t in self.historical_ticks if t['reqId'] == req_id + chunk]
A1_ChunkTrades == SelectSeq(historical_ticks, LAMBDA t : t.reqId = req_id)

\* lines 143-156: count the ticks of this request, stop on a short page,
\* else move the cursor to one second before the earliest tick
A1_Check ==
    /\ pc = "check"
    /\ IF A1_KeyError
       THEN /\ pc' = "raised"
            /\ UNCHANGED <<current_end, exit_log>>
       ELSE IF Len(A1_ChunkTrades) < PageLimit
            THEN /\ exit_log' = "end_of_data"
                 /\ pc' = "done"
                 /\ UNCHANGED current_end
            ELSE /\ IF Len(historical_ticks) > 0 /\ Len(A1_ChunkTrades) > 0
                    THEN current_end' = MinTime(A1_ChunkTrades) - 1
                    ELSE UNCHANGED current_end
                 /\ pc' = "pace"
                 /\ UNCHANGED exit_log
    /\ UNCHANGED <<gwVars, cbVars, start_date, end_date, page_num, req_id,
                   initial_tick_count, success, chunk_trades, chunk>>
    /\ UNCHANGED extVars

\* time.sleep(1); next chunk
A1_Pace ==
    /\ pc = "pace"
    /\ chunk' = chunk + 1
    /\ pc' = "begin"
    /\ UNCHANGED <<gwVars, cbVars, start_date, end_date, current_end, page_num,
                   req_id, initial_tick_count, success, chunk_trades, exit_log>>
    /\ UNCHANGED extVars

\* collect_single_stock_data: 'trades': pd.DataFrame(self.historical_ticks)
A1_Trades == historical_ticks

(* ---- specifications ---------------------------------------------------- *)
InitA3 ==
    /\ gw_store \in Stores
    /\ gw_reqs = <<>>
    /\ cb_sleeping = FALSE
    /\ historical_ticks = <<>>
    /\ request_complete = FALSE
    /\ error_messages = <<>>
    /\ pc = "begin"
    /\ start_date \in 0..(MaxTime - 1)
    /\ end_date = MaxTime
    /\ current_end = end_date
    /\ page_num = 0
    /\ req_id = 0
    /\ initial_tick_count = 0
    /\ success = FALSE
    /\ chunk_trades = <<>>
    /\ chunk = 0
    /\ exit_log = "none"
    /\ historical_bars = <<>>
    /\ all_bbo_bars = <<>>
    /\ current_start = 0
    /\ chunk_end = 0
    /\ block_num = 0
    /\ initial_bar_count = 0
    /\ current_instrument = ""
    /\ data_storage = <<>>
    /\ instrument_num = 0
    /\ interval_num = 0
    /\ hash_of = <<>>
    /\ chunk_num = 0
    /\ all_trades = <<>>
    /\ trade_chunks = <<>>
    /\ tz_offset = 0

\* _collect_trade_chunk on a collector in any time zone: its requests label the
\* local time current_end as " US/Eastern"
InitA3TZ ==
    /\ gw_store \in Stores
    /\ gw_reqs = <<>>
    /\ cb_sleeping = FALSE
    /\ historical_ticks = <<>>
    /\ request_complete = FALSE
    /\ error_messages = <<>>
    /\ pc = "begin"
    /\ start_date \in 0..(MaxTime - 1)
    /\ end_date = MaxTime
    /\ current_end = end_date
    /\ page_num = 0
    /\ req_id = 0
    /\ initial_tick_count = 0
    /\ success = FALSE
    /\ chunk_trades = <<>>
    /\ chunk = 0
    /\ exit_log = "none"
    /\ historical_bars = <<>>
    /\ all_bbo_bars = <<>>
    /\ current_start = 0
    /\ chunk_end = 0
    /\ block_num = 0
    /\ initial_bar_count = 0
    /\ current_instrument = ""
    /\ data_storage = <<>>
    /\ instrument_num = 0
    /\ interval_num = 0
    /\ hash_of = <<>>
    /\ chunk_num = 0
    /\ all_trades = <<>>
    /\ trade_chunks = <<>>
    /\ tz_offset \in (0 - MaxTz)..MaxTz

A3_Gateway ==
    \/ \E i \in 1..Len(gw_reqs), n \in 0..PageLimit, done \in BOOLEAN :
          historicalTicksLast(i, n, done)
    \/ \E errorCode \in ErrorCodes : A3_error(ErrorReqId, errorCode)

NextA3 ==
    \/ A3_Begin
    \/ A3_Request
    \/ A3_RequestRaises
    \/ A3_WaitSet
    \/ A3_WaitTimeout
    \/ A3_Process
    \/ A3_Pace
    \/ A3_Gateway

SpecA3 == InitA3 /\ [][NextA3]_vars

SpecA3TZ == InitA3TZ /\ [][NextA3]_vars

\* the steps of the collector thread inside _collect_trade_chunk
A3_Collector ==
    \/ A3_Begin
    \/ A3_Request
    \/ A3_RequestRaises
    \/ A3_WaitSet
    \/ A3_WaitTimeout
    \/ A3_Process
    \/ A3_Pace

\* the collector thread keeps running: a sleep ends, a wait returns when the
\* event is set or its timeout has passed.  Nothing is asked of the gateway.
FairA3 == InitA3 /\ [][NextA3]_vars /\ WF_vars(A3_Collector)

InitA1 ==
    /\ gw_store \in Stores
    /\ gw_reqs = <<>>
    /\ cb_sleeping = FALSE
    /\ historical_ticks = <<>>
    /\ request_complete = FALSE
    /\ error_messages = <<>>
    /\ pc = "begin"
    /\ start_date = 0
    /\ end_date = MaxTime
    /\ current_end = end_date
    /\ page_num = 0
    /\ req_id = 0
    /\ initial_tick_count = 0
    /\ success = FALSE
    /\ chunk_trades = <<>>
    /\ chunk = 0
    /\ exit_log = "none"
    /\ historical_bars = <<>>
    /\ all_bbo_bars = <<>>
    /\ current_start = 0
    /\ chunk_end = 0
    /\ block_num = 0
    /\ initial_bar_count = 0
    /\ current_instrument = ""
    /\ data_storage = <<>>
    /\ instrument_num = 0
    /\ interval_num = 0
    /\ hash_of = <<>>
    /\ chunk_num = 0
    /\ all_trades = <<>>
    /\ trade_chunks = <<>>
    /\ tz_offset = 0

A1_Gateway ==
    \/ \E i \in 1..Len(gw_reqs), n \in 0..PageLimit, done \in BOOLEAN :
          historicalTicksLast(i, n, done)
    \/ \E i \in 1..Len(gw_reqs), n \in 0..PageLimit, done \in BOOLEAN :
          historicalTicks(i, n, done)
    \/ \E errorCode \in ErrorCodes : A1_error(ErrorReqId, errorCode)
    \/ A1_errorReturn

NextA1 ==
    \/ A1_Begin
    \/ A1_Request
    \/ A1_Wait
    \/ A1_Check
    \/ A1_Pace
    \/ A1_Gateway

SpecA1 == InitA1 /\ [][NextA1]_vars

(* ---- Activity 3: _collect_bbo_minute_data ----------------------------- *)
Min(a, b) == IF a < b THEN a ELSE b

\* gateway: the bars of a request, one per day of the durationStr days that end
\* at endDateTime, oldest first
BarsOf(r) ==
    LET lo == IF r.endTime - r.days + 1 < 1 THEN 1 ELSE r.endTime - r.days + 1
    IN [j \in 1..(r.endTime - lo + 1) |-> lo + j - 1]

\* Activity3DataCollector.historicalData: a bar whose date starts with
\* "finished" sets the event, any other bar is appended with its reqId
historicalData(i, finished) ==
    /\ Running
    /\ i \in 1..Len(gw_reqs)
    /\ IF finished
       THEN /\ gw_reqs[i].sent = Len(BarsOf(gw_reqs[i]))
            /\ ~gw_reqs[i].fin
            /\ request_complete' = TRUE
            /\ gw_reqs' = [gw_reqs EXCEPT ![i].fin = TRUE]
            /\ UNCHANGED historical_bars
       ELSE /\ gw_reqs[i].sent < Len(BarsOf(gw_reqs[i]))
            /\ historical_bars' = Append(historical_bars,
                   [reqId |-> gw_reqs[i].reqId,
                    datetime |-> BarsOf(gw_reqs[i])[gw_reqs[i].sent + 1]])
            /\ gw_reqs' = [gw_reqs EXCEPT ![i].sent = @ + 1]
            /\ UNCHANGED request_complete
    /\ UNCHANGED <<gw_store, cb_sleeping, historical_ticks, error_messages, loopVars>>
    /\ UNCHANGED <<all_bbo_bars, current_start, chunk_end, block_num, initial_bar_count,
                   a2Vars, tdVars, envVars>>

\* Activity3DataCollector.historicalDataEnd
historicalDataEnd(i) ==
    /\ Running
    /\ i \in 1..Len(gw_reqs)
    /\ gw_reqs[i].sent = Len(BarsOf(gw_reqs[i]))
    /\ ~gw_reqs[i].done
    /\ request_complete' = TRUE
    /\ gw_reqs' = [gw_reqs EXCEPT ![i].done = TRUE]
    /\ UNCHANGED <<gw_store, cb_sleeping, historical_ticks, error_messages, loopVars, extVars>>

\* while current_start < end_date: chunk_end, clear the event, note the list
\* length, pick the id
BBO_Begin ==
    /\ pc = "begin"
    /\ IF current_start < end_date
       THEN /\ chunk_end' = Min(current_start + BlockDays, end_date)
            /\ request_complete' = FALSE
            /\ initial_bar_count' = Len(historical_bars)
            /\ req_id' = BboReqIdBase + block_num
            /\ pc' = "request"
       ELSE /\ pc' = "done"
            /\ UNCHANGED <<chunk_end, request_complete, initial_bar_count, req_id>>
    /\ UNCHANGED <<gwVars, historical_ticks, error_messages, start_date, end_date,
                   current_end, page_num, initial_tick_count, success, chunk_trades,
                   chunk, exit_log>>
    /\ UNCHANGED <<historical_bars, all_bbo_bars, current_start, block_num, a2Vars, tdVars, envVars>>

\* self.reqHistoricalData(reqId=req_id, endDateTime=chunk_end, durationStr="7 D")
BBO_Request ==
    /\ pc = "request"
    /\ gw_reqs' = Append(gw_reqs, [reqId |-> req_id, endTime |-> chunk_end,
                                   days |-> BlockDays, sent |-> 0,
                                   done |-> FALSE, fin |-> FALSE])
    /\ pc' = "wait"
    /\ UNCHANGED <<gw_store, cb_sleeping, cbVars, start_date, end_date, current_end,
                   page_num, req_id, initial_tick_count, success, chunk_trades, chunk,
                   exit_log, extVars>>

\* success = self.request_complete.wait(timeout=60)
BBO_Wait ==
    /\ pc = "wait"
    /\ success' = request_complete
    /\ pc' = "collect"
    /\ UNCHANGED <<gwVars, cbVars, start_date, end_date, current_end, page_num, req_id,
                   initial_tick_count, chunk_trades, chunk, exit_log, extVars>>

\* the bars of this request that were appended since the request was prepared
BlockBars ==
    SelectSeq(SubSeq(historical_bars, initial_bar_count + 1, Len(historical_bars)),
              LAMBDA b : b.reqId = req_id)

\* if success: extend all_bbo_bars, else warn; then step to the next block
BBO_Collect ==
    /\ pc = "collect"
    /\ all_bbo_bars' = IF success THEN all_bbo_bars \o BlockBars ELSE all_bbo_bars
    /\ current_start' = chunk_end + DayStep
    /\ block_num' = block_num + 1
    /\ pc' = "begin"
    /\ UNCHANGED <<gwVars, cbVars, start_date, end_date, current_end, page_num, req_id,
                   initial_tick_count, success, chunk_trades, chunk, exit_log>>
    /\ UNCHANGED <<historical_bars, chunk_end, initial_bar_count, a2Vars, tdVars, envVars>>

\* return pd.DataFrame(all_bbo_bars)
BBO_Result == all_bbo_bars

InitBBO ==
    /\ gw_store = <<>>
    /\ gw_reqs = <<>>
    /\ cb_sleeping = FALSE
    /\ historical_ticks = <<>>
    /\ request_complete = FALSE
    /\ error_messages = <<>>
    /\ pc = "begin"
    /\ start_date \in 0..(MaxDay - 1)
    /\ end_date = MaxDay
    /\ current_end = 0
    /\ page_num = 0
    /\ req_id = 0
    /\ initial_tick_count = 0
    /\ success = FALSE
    /\ chunk_trades = <<>>
    /\ chunk = 0
    /\ exit_log = "none"
    /\ historical_bars = <<>>
    /\ all_bbo_bars = <<>>
    /\ current_start = start_date
    /\ chunk_end = 0
    /\ block_num = 0
    /\ initial_bar_count = 0
    /\ current_instrument = ""
    /\ data_storage = <<>>
    /\ instrument_num = 0
    /\ interval_num = 0
    /\ hash_of = <<>>
    /\ chunk_num = 0
    /\ all_trades = <<>>
    /\ trade_chunks = <<>>
    /\ tz_offset = 0

BBO_Gateway ==
    \/ \E i \in 1..Len(gw_reqs), finished \in BOOLEAN : historicalData(i, finished)
    \/ \E i \in 1..Len(gw_reqs) : historicalDataEnd(i)
    \/ \E errorCode \in ErrorCodes : A3_error(ErrorReqId, errorCode)

NextBBO ==
    \/ BBO_Begin
    \/ BBO_Request
    \/ BBO_Wait
    \/ BBO_Collect
    \/ BBO_Gateway

SpecBBO == InitBBO /\ [][NextBBO]_vars

(* ---- Activity 1: _collect_historical_bars ----------------------------- *)
\* Activity1DataCollector.historicalData: as Activity 3's, but the bar dict has
\* no 'reqId' key (Activity 1 does not override historicalDataEnd)
A1_historicalData(i, finished) ==
    /\ Running
    /\ ~cb_sleeping
    /\ i \in 1..Len(gw_reqs)
    /\ IF finished
       THEN /\ gw_reqs[i].sent = Len(BarsOf(gw_reqs[i]))
            /\ ~gw_reqs[i].fin
            /\ request_complete' = TRUE
            /\ gw_reqs' = [gw_reqs EXCEPT ![i].fin = TRUE]
            /\ UNCHANGED historical_bars
       ELSE /\ gw_reqs[i].sent < Len(BarsOf(gw_reqs[i]))
            /\ historical_bars' = Append(historical_bars,
                   [datetime |-> BarsOf(gw_reqs[i])[gw_reqs[i].sent + 1]])
            /\ gw_reqs' = [gw_reqs EXCEPT ![i].sent = @ + 1]
            /\ UNCHANGED request_complete
    /\ UNCHANGED <<gw_store, cb_sleeping, historical_ticks, error_messages, loopVars>>
    /\ UNCHANGED <<all_bbo_bars, current_start, chunk_end, block_num, initial_bar_count,
                   a2Vars, tdVars, envVars>>

\* for i, interval in enumerate(intervals): self.request_complete.clear()
A1_BarsBegin ==
    /\ pc = "begin"
    /\ IF interval_num < A1Intervals
       THEN /\ request_complete' = FALSE
            /\ pc' = "request"
       ELSE /\ pc' = "done"
            /\ UNCHANGED request_complete
    /\ UNCHANGED <<gwVars, historical_ticks, error_messages, start_date, end_date,
                   current_end, page_num, req_id, initial_tick_count, success,
                   chunk_trades, chunk, exit_log, extVars>>

\* self.reqHistoricalData(reqId=req_id, endDateTime=end_date, durationStr="1 D")
A1_BarsRequest ==
    /\ pc = "request"
    /\ gw_reqs' = Append(gw_reqs, [reqId |-> req_id, endTime |-> end_date,
                                   days |-> A1BarDays, sent |-> 0,
                                   done |-> FALSE, fin |-> FALSE])
    /\ pc' = "wait"
    /\ UNCHANGED <<gw_store, cb_sleeping, cbVars, start_date, end_date, current_end,
                   page_num, req_id, initial_tick_count, success, chunk_trades, chunk,
                   exit_log, extVars>>

\* self.request_complete.wait(timeout=5) returns, set or timed out, and the
\* result is dropped; time.sleep(2); next interval
A1_BarsWait ==
    /\ pc = "wait"
    /\ interval_num' = interval_num + 1
    /\ pc' = "begin"
    /\ UNCHANGED <<gwVars, cbVars, start_date, end_date, current_end, page_num, req_id,
                   initial_tick_count, success, chunk_trades, chunk, exit_log, barVars, tdVars, envVars,
                   current_instrument, data_storage, instrument_num, hash_of>>

InitA1Bars ==
    /\ gw_store = <<>>
    /\ gw_reqs = <<>>
    /\ cb_sleeping = FALSE
    /\ historical_ticks = <<>>
    /\ request_complete \in BOOLEAN
    /\ error_messages = <<>>
    /\ pc = "begin"
    /\ start_date = 0
    /\ end_date \in 1..MaxDay
    /\ current_end = 0
    /\ page_num = 0
    /\ req_id = A1BarReqId
    /\ initial_tick_count = 0
    /\ success = FALSE
    /\ chunk_trades = <<>>
    /\ chunk = 0
    /\ exit_log = "none"
    /\ historical_bars = <<>>
    /\ all_bbo_bars = <<>>
    /\ current_start = 0
    /\ chunk_end = 0
    /\ block_num = 0
    /\ initial_bar_count = 0
    /\ current_instrument = ""
    /\ data_storage = <<>>
    /\ instrument_num = 0
    /\ interval_num = 0
    /\ hash_of = <<>>
    /\ chunk_num = 0
    /\ all_trades = <<>>
    /\ trade_chunks = <<>>
    /\ tz_offset = 0

A1_BarsGateway ==
    \/ \E i \in 1..Len(gw_reqs), finished \in BOOLEAN : A1_historicalData(i, finished)
    \/ \E errorCode \in ErrorCodes : A1_error(ErrorReqId, errorCode)
    \/ A1_errorReturn

NextA1Bars ==
    \/ A1_BarsBegin
    \/ A1_BarsRequest
    \/ A1_BarsWait
    \/ A1_BarsGateway

SpecA1Bars == InitA1Bars /\ [][NextA1Bars]_vars

(* ---- Activity 2: collect_hedging_portfolio_data ----------------------- *)
\* The loop over contracts.items().  create_contracts sets the symbol of
\* contracts['QQQ'] without creating that entry, which raises KeyError before
\* the loop is entered; the loop is modelled for a contracts dict holding the
\* entries built before that line (the first two of them).
Instruments == <<"NDQ_AU", "NQ_FUTURES">>

\* the strings Activity 2 hashes for its request ids
HashKeys == {Instruments[k] : k \in 1..Len(Instruments)}
            \cup {Instruments[k] \o "bars" : k \in 1..Len(Instruments)}

\* Activity2HedgingDataCollector.historicalTicksLast: every tick is tagged with
\* self.current_instrument.  from_contract is not a key of the dict: it names
\* the contract of the request the gateway delivered the tick for.
A2_historicalTicksLast(i, n, done) ==
    /\ Running
    /\ ~cb_sleeping
    /\ gw_reqs[i].what = "ticks"
    /\ ~gw_reqs[i].done
    /\ n <= Len(PageOf(gw_reqs[i].endTime)) - gw_reqs[i].sent
    /\ done => n = Len(PageOf(gw_reqs[i].endTime)) - gw_reqs[i].sent
    /\ n > 0 \/ done
    /\ historical_ticks' = historical_ticks \o
           [j \in 1..n |-> [instrument |-> current_instrument,
                            time |-> fromtimestamp(gw_store[PageOf(gw_reqs[i].endTime)[gw_reqs[i].sent + j]]),
                            from_contract |-> gw_reqs[i].contract]]
    /\ request_complete' = (request_complete \/ done)
    /\ gw_reqs' = [gw_reqs EXCEPT ![i].sent = @ + n, ![i].done = done]
    /\ UNCHANGED <<gw_store, cb_sleeping, error_messages, loopVars, extVars>>

\* Activity2HedgingDataCollector.historicalData
A2_historicalData(i, finished) ==
    /\ Running
    /\ ~cb_sleeping
    /\ gw_reqs[i].what = "bars"
    /\ IF finished
       THEN /\ gw_reqs[i].sent = Len(BarsOf(gw_reqs[i]))
            /\ ~gw_reqs[i].fin
            /\ request_complete' = TRUE
            /\ gw_reqs' = [gw_reqs EXCEPT ![i].fin = TRUE]
            /\ UNCHANGED historical_bars
       ELSE /\ gw_reqs[i].sent < Len(BarsOf(gw_reqs[i]))
            /\ historical_bars' = Append(historical_bars,
                   [instrument |-> current_instrument,
                    datetime |-> BarsOf(gw_reqs[i])[gw_reqs[i].sent + 1],
                    from_contract |-> gw_reqs[i].contract])
            /\ gw_reqs' = [gw_reqs EXCEPT ![i].sent = @ + 1]
            /\ UNCHANGED request_complete
    /\ UNCHANGED <<gw_store, cb_sleeping, historical_ticks, error_messages, loopVars>>
    /\ UNCHANGED <<all_bbo_bars, current_start, chunk_end, block_num, initial_bar_count,
                   a2Vars, tdVars, envVars>>

\* for instrument_name, contract in contracts.items():
\*     self.current_instrument = instrument_name
A2_NextInstrument ==
    /\ pc = "next"
    /\ IF instrument_num < Len(Instruments)
       THEN /\ current_instrument' = Instruments[instrument_num + 1]
            /\ chunk' = 0
            /\ pc' = "t_begin"
       ELSE /\ pc' = "done"
            /\ UNCHANGED <<current_instrument, chunk>>
    /\ UNCHANGED <<gwVars, cbVars, start_date, end_date, current_end, page_num, req_id,
                   initial_tick_count, success, chunk_trades, exit_log, barVars, tdVars, envVars,
                   data_storage, instrument_num, interval_num, hash_of>>

\* _collect_trades: req_id = hash(self.current_instrument) % 10000
\* for chunk in range(1): self.request_complete.clear()
A2_TradesBegin ==
    /\ pc = "t_begin"
    /\ IF chunk < A2Chunks
       THEN /\ req_id' = hash_of[current_instrument]
            /\ request_complete' = FALSE
            /\ pc' = "t_request"
            /\ UNCHANGED interval_num
       ELSE /\ interval_num' = 0
            /\ pc' = "b_begin"
            /\ UNCHANGED <<req_id, request_complete>>
    /\ UNCHANGED <<gwVars, historical_ticks, error_messages, start_date, end_date,
                   current_end, page_num, initial_tick_count, success, chunk_trades,
                   chunk, exit_log, barVars, tdVars, envVars, current_instrument, data_storage,
                   instrument_num, hash_of>>

\* self.reqHistoricalTicks(reqId=req_id + chunk, endDateTime=end_date, numberOfTicks=1000)
A2_TradesRequest ==
    /\ pc = "t_request"
    /\ gw_reqs' = Append(gw_reqs, [reqId |-> req_id + chunk, endTime |-> end_date,
                                   days |-> 0, sent |-> 0, done |-> FALSE, fin |-> FALSE,
                                   what |-> "ticks", contract |-> current_instrument])
    /\ pc' = "t_wait"
    /\ UNCHANGED <<gw_store, cb_sleeping, cbVars, start_date, end_date, current_end,
                   page_num, req_id, initial_tick_count, success, chunk_trades, chunk,
                   exit_log, extVars>>

\* if not self.request_complete.wait(timeout=5): warning; break
\* time.sleep(1)
A2_TradesWait ==
    /\ pc = "t_wait"
    /\ success' = request_complete
    /\ IF request_complete
       THEN /\ chunk' = chunk + 1
            /\ pc' = "t_begin"
            /\ UNCHANGED interval_num
       ELSE /\ interval_num' = 0
            /\ pc' = "b_begin"
            /\ UNCHANGED chunk
    /\ UNCHANGED <<gwVars, cbVars, start_date, end_date, current_end, page_num, req_id,
                   initial_tick_count, chunk_trades, exit_log, barVars, tdVars, envVars,
                   current_instrument, data_storage, instrument_num, hash_of>>

\* _collect_bars: base_req_id = hash(self.current_instrument + "bars") % 10000
\* for i, interval in enumerate(intervals): self.request_complete.clear()
A2_BarsBegin ==
    /\ pc = "b_begin"
    /\ IF interval_num < A2Intervals
       THEN /\ req_id' = hash_of[current_instrument \o "bars"] + interval_num
            /\ request_complete' = FALSE
            /\ pc' = "b_request"
       ELSE /\ pc' = "store"
            /\ UNCHANGED <<req_id, request_complete>>
    /\ UNCHANGED <<gwVars, historical_ticks, error_messages, start_date, end_date,
                   current_end, page_num, initial_tick_count, success, chunk_trades,
                   chunk, exit_log, extVars>>

\* self.reqHistoricalData(reqId=base_req_id + i, endDateTime=end_date, durationStr=duration)
A2_BarsRequest ==
    /\ pc = "b_request"
    /\ gw_reqs' = Append(gw_reqs, [reqId |-> req_id, endTime |-> end_date,
                                   days |-> A2BarDays, sent |-> 0, done |-> FALSE,
                                   fin |-> FALSE, what |-> "bars",
                                   contract |-> current_instrument])
    /\ pc' = "b_wait"
    /\ UNCHANGED <<gw_store, cb_sleeping, cbVars, start_date, end_date, current_end,
                   page_num, req_id, initial_tick_count, success, chunk_trades, chunk,
                   exit_log, extVars>>

\* if not self.request_complete.wait(timeout=30): warning
\* time.sleep(2)
A2_BarsWait ==
    /\ pc = "b_wait"
    /\ success' = request_complete
    /\ interval_num' = interval_num + 1
    /\ pc' = "b_begin"
    /\ UNCHANGED <<gwVars, cbVars, start_date, end_date, current_end, page_num, req_id,
                   initial_tick_count, chunk_trades, chunk, exit_log, barVars, tdVars, envVars,
                   current_instrument, data_storage, instrument_num, hash_of>>

\* the request call raises: except Exception: log, continue
A2_RequestRaises ==
    /\ pc \in {"t_request", "b_request"}
    /\ instrument_num' = instrument_num + 1
    /\ pc' = "next"
    /\ UNCHANGED <<gwVars, cbVars, start_date, end_date, current_end, page_num, req_id,
                   initial_tick_count, success, chunk_trades, chunk, exit_log, barVars, tdVars, envVars,
                   current_instrument, data_storage, interval_num, hash_of>>

\* self.data_storage[instrument_name] = {'trades': [t ... if t['instrument'] ==
\* instrument_name], 'bars': [b ... if b['instrument'] == instrument_name]}
A2_Stored(instrument_name) ==
    [trades |-> SelectSeq(historical_ticks, LAMBDA t : t.instrument = instrument_name),
     bars |-> SelectSeq(historical_bars, LAMBDA b : b.instrument = instrument_name)]

A2_Store ==
    /\ pc = "store"
    /\ data_storage' =
           [k \in DOMAIN data_storage \cup {current_instrument} |->
               IF k = current_instrument THEN A2_Stored(k) ELSE data_storage[k]]
    /\ instrument_num' = instrument_num + 1
    /\ pc' = "next"
    /\ UNCHANGED <<gwVars, cbVars, start_date, end_date, current_end, page_num, req_id,
                   initial_tick_count, success, chunk_trades, chunk, exit_log, barVars, tdVars, envVars,
                   current_instrument, interval_num, hash_of>>

InitA2 ==
    /\ gw_store \in {Repeat(MaxTime, n) : n \in 0..1}
    /\ gw_reqs = <<>>
    /\ cb_sleeping = FALSE
    /\ historical_ticks = <<>>
    /\ request_complete = FALSE
    /\ error_messages = <<>>
    /\ pc = "next"
    /\ start_date = 0
    /\ end_date = MaxTime
    /\ current_end = 0
    /\ page_num = 0
    /\ req_id = 0
    /\ initial_tick_count = 0
    /\ success = FALSE
    /\ chunk_trades = <<>>
    /\ chunk = 0
    /\ exit_log = "none"
    /\ historical_bars = <<>>
    /\ all_bbo_bars = <<>>
    /\ current_start = 0
    /\ chunk_end = 0
    /\ block_num = 0
    /\ initial_bar_count = 0
    /\ current_instrument = ""
    /\ data_storage = [k \in {} |-> <<>>]
    /\ instrument_num = 0
    /\ interval_num = 0
    /\ hash_of \in [HashKeys -> 0..MaxHash]
    /\ chunk_num = 0
    /\ all_trades = <<>>
    /\ trade_chunks = <<>>
    /\ tz_offset = 0

\* Activity 2's error() only logs and sleeps in the API thread, which delays the
\* callbacks; they may come at any time here, so error notifications are left out
A2_Gateway ==
    \/ \E i \in 1..Len(gw_reqs), n \in 0..PageLimit, done \in BOOLEAN :
           A2_historicalTicksLast(i, n, done)
    \/ \E i \in 1..Len(gw_reqs), finished \in BOOLEAN : A2_historicalData(i, finished)

NextA2 ==
    \/ A2_NextInstrument
    \/ A2_TradesBegin
    \/ A2_TradesRequest
    \/ A2_TradesWait
    \/ A2_BarsBegin
    \/ A2_BarsRequest
    \/ A2_BarsWait
    \/ A2_RequestRaises
    \/ A2_Store
    \/ A2_Gateway

SpecA2 == InitA2 /\ [][NextA2]_vars

(* ---- Activity 2: _collect_trades on its own --------------------------- *)
\* the call self._collect_trades(contract, target_date) for one instrument, from
\* its first line to its return (pc = "b_begin", where _collect_bars begins)
InitA2Trades ==
    /\ gw_store \in Stores
    /\ gw_reqs = <<>>
    /\ cb_sleeping = FALSE
    /\ historical_ticks = <<>>
    /\ request_complete = FALSE
    /\ error_messages = <<>>
    /\ pc = "t_begin"
    /\ start_date = 0
    /\ end_date = MaxTime
    /\ current_end = 0
    /\ page_num = 0
    /\ req_id = 0
    /\ initial_tick_count = 0
    /\ success = FALSE
    /\ chunk_trades = <<>>
    /\ chunk = 0
    /\ exit_log = "none"
    /\ historical_bars = <<>>
    /\ all_bbo_bars = <<>>
    /\ current_start = 0
    /\ chunk_end = 0
    /\ block_num = 0
    /\ initial_bar_count = 0
    /\ current_instrument \in {Instruments[k] : k \in 1..Len(Instruments)}
    /\ data_storage = [k \in {} |-> <<>>]
    /\ instrument_num = 0
    /\ interval_num = 0
    /\ hash_of \in [HashKeys -> 0..MaxHash]
    /\ chunk_num = 0
    /\ all_trades = <<>>
    /\ trade_chunks = <<>>
    /\ tz_offset = 0

NextA2Trades ==
    \/ A2_TradesBegin
    \/ A2_TradesRequest
    \/ A2_TradesWait
    \/ \E i \in 1..Len(gw_reqs), n \in 0..PageLimit, done \in BOOLEAN :
           A2_historicalTicksLast(i, n, done)

SpecA2Trades == InitA2Trades /\ [][NextA2Trades]_vars

(* ---- Activity 3: the monthly chunks of _collect_trade_data ------------- *)
\* Times are whole steps of the collector's clock; the scaled model takes the
\* one second of the paging cursor and the one day of the chunk cursor as one
\* step each, and a chunk as ChunkDays steps.

\* what one call _collect_trade_chunk(contract, symbol, startT, endT, num)
\* returns when its first pages are answered in full and it is ended (by a
\* timeout or an exception) before page cut, if it has not ended by itself
RECURSIVE A3_Walk(_, _, _, _, _)
A3_Walk(endT, startT, num, page, cut) ==
    IF page >= MaxPages \/ page >= cut
    THEN <<>>
    ELSE LET pg == PageOf(endT)
             page_ticks == [j \in 1..Len(pg) |->
                               [reqId |-> TradeReqIdBase + (num * ChunkReqIdStride) + page,
                                time |-> fromtimestamp(gw_store[pg[j]]),
                                seq |-> pg[j]]]
         IN IF A3_ShortPage(page_ticks)
            THEN A3_Kept(page_ticks)
            ELSE IF MinTime(page_ticks) - 1 < startT
                 THEN A3_Kept(page_ticks)
                 ELSE A3_Kept(page_ticks)
                          \o A3_Walk(MinTime(page_ticks) - 1, startT, num, page + 1, cut)

\* while current_start < end_date and chunk_num < 3:
\*     chunk_end = min(current_start + timedelta(days=30), end_date)
TD_Begin ==
    /\ pc = "begin"
    /\ IF current_start < end_date /\ chunk_num < MaxChunks
       THEN /\ chunk_end' = Min(current_start + ChunkDays, end_date)
            /\ pc' = "chunk"
       ELSE /\ pc' = "done"
            /\ UNCHANGED chunk_end
    /\ UNCHANGED <<gwVars, cbVars, start_date, end_date, current_end, page_num, req_id,
                   initial_tick_count, success, chunk_trades, chunk, exit_log>>
    /\ UNCHANGED <<historical_bars, all_bbo_bars, current_start, block_num,
                   initial_bar_count, a2Vars, tdVars, envVars>>

\* chunk_trades = self._collect_trade_chunk(contract, symbol, current_start,
\*                                          chunk_end, chunk_num)
\* all_trades.extend(chunk_trades)
TD_Chunk ==
    /\ pc = "chunk"
    /\ \E cut \in 0..MaxPages :
           /\ chunk_trades' = A3_Walk(chunk_end, current_start, chunk_num, 0, cut)
           /\ all_trades' = all_trades \o A3_Walk(chunk_end, current_start, chunk_num, 0, cut)
    /\ trade_chunks' = Append(trade_chunks, [current_start |-> current_start,
                                             chunk_end |-> chunk_end,
                                             chunk_num |-> chunk_num])
    /\ pc' = "step"
    /\ UNCHANGED <<gwVars, cbVars, start_date, end_date, current_end, page_num, req_id,
                   initial_tick_count, success, chunk, exit_log>>
    /\ UNCHANGED <<barVars, a2Vars, chunk_num, envVars>>

\* current_start = chunk_end + timedelta(days=1); chunk_num += 1; time.sleep(5)
TD_Step ==
    /\ pc = "step"
    /\ current_start' = chunk_end + DayStep
    /\ chunk_num' = chunk_num + 1
    /\ pc' = "begin"
    /\ UNCHANGED <<gwVars, cbVars, start_date, end_date, current_end, page_num, req_id,
                   initial_tick_count, success, chunk_trades, chunk, exit_log>>
    /\ UNCHANGED <<historical_bars, all_bbo_bars, chunk_end, block_num,
                   initial_bar_count, a2Vars, all_trades, trade_chunks, envVars>>

\* the call _collect_trade_data(contract, symbol, start_date, end_date): windows
\* up to one chunk longer than the MaxChunks chunks reach
InitTD ==
    /\ gw_store \in Stores
    /\ gw_reqs = <<>>
    /\ cb_sleeping = FALSE
    /\ historical_ticks = <<>>
    /\ request_complete = FALSE
    /\ error_messages = <<>>
    /\ pc = "begin"
    /\ start_date \in 0..1
    /\ end_date \in (start_date + 1)..(start_date + TdWindow + ChunkDays)
    /\ current_end = 0
    /\ page_num = 0
    /\ req_id = 0
    /\ initial_tick_count = 0
    /\ success = FALSE
    /\ chunk_trades = <<>>
    /\ chunk = 0
    /\ exit_log = "none"
    /\ historical_bars = <<>>
    /\ all_bbo_bars = <<>>
    /\ current_start = start_date
    /\ chunk_end = 0
    /\ block_num = 0
    /\ initial_bar_count = 0
    /\ current_instrument = ""
    /\ data_storage = <<>>
    /\ instrument_num = 0
    /\ interval_num = 0
    /\ hash_of = <<>>
    /\ chunk_num = 0
    /\ all_trades = <<>>
    /\ trade_chunks = <<>>
    /\ tz_offset = 0

NextTD ==
    \/ TD_Begin
    \/ TD_Chunk
    \/ TD_Step

SpecTD == InitTD /\ [][NextTD]_vars







(* ---- results and reports ---------------------------------------------- *)
\* an empty result after a timeout, as _collect_eod_data returns
A3_Result_emptyOnTimeout == IF exit_log = "timeout" THEN <<>> ELSE chunk_trades

\* return chunk_trades
A3_Result == chunk_trades

\* the loop was left at "End of data reached" or "Reached start date boundary"
ReportedComplete == exit_log \in {"end_of_data", "boundary"}

NonDecreasing(s) == \A i \in 1..(Len(s) - 1) : s[i].time <= s[i + 1].time

NoSharedTimestamp(s) == \A i, j \in 1..Len(s) : i # j => s[i].time # s[j].time

\* how often tick k of the gateway's history is in s
Occurrences(s, k) == Cardinality({i \in 1..Len(s) : s[i].seq = k})

\* the gateway was not seen to fail: no error notification, no timeout, no raise
NoFault == Len(error_messages) = 0 /\ exit_log \notin {"timeout", "error"}

\* request i was completed by the gateway with exactly n ticks
Completed(i, n) == gw_reqs[i].done /\ gw_reqs[i].sent = n

(* ---- claims ------------------------------------------------------------ *)
\* C1 (as claimed): when the gateway serves full pages down to the start of
\* its data and a short page after that, with no timeout and no error, and
\* the loop did not stop at max_pages, the loop ends reported complete and
\* the result holds every tick of the gateway at or before end_date exactly
\* once.
C1_NaturalTermination ==
    (/\ pc = "done"
     /\ NoFault
     /\ page_num < MaxPages
     /\ Len(gw_store) > 0
     /\ start_date <= gw_store[1])
    => /\ ReportedComplete
       /\ \A k \in 1..Len(gw_store) :
             gw_store[k] <= end_date => Occurrences(A3_Result, k) = 1

\* C2 (as claimed): every record of the result a backfill returns has its
\* timestamp inside [start_date, end_date] of the paging call.
C2_BoundaryRespect ==
    pc = "done" =>
        \A i \in 1..Len(A3_Result) :
            start_date <= A3_Result[i].time /\ A3_Result[i].time <= end_date

\* C3 (as claimed): the series a paged chunk returns is non-decreasing by
\* timestamp and no two of its records share a timestamp (instrument and data
\* kind are the same for all records of a chunk).
C3_Monotonicity ==
    pc = "done" => NonDecreasing(A3_Result) /\ NoSharedTimestamp(A3_Result)

\* the ticks of historical_ticks that carry request id r
TicksOf(r) == SelectSeq(historical_ticks, LAMBDA t : t.reqId = r)

\* C4 (as claimed): when page 1 was completed with exactly PageLimit records
\* and the wait for page 2 timed out without its completion, the result is
\* exactly the records of page 1 and the job is not reported complete.
C4_TimeoutPartiality ==
    (/\ pc = "done"
     /\ Len(gw_reqs) = 2
     /\ Completed(1, PageLimit)
     /\ ~success)
    => /\ A1_Trades = TicksOf(gw_reqs[1].reqId)
       /\ ~ReportedComplete

\* C5 (as claimed): when the gateway answers the first page request with the
\* pacing error 162 (and with nothing else), the loop is not ended by it: it
\* does not finish with that one request only.
C5_PacingAbsorption ==
    (/\ pc = "done"
     /\ exit_log \notin {"timeout", "error"}
     /\ Len(gw_store) > 0
     /\ Len(gw_reqs) >= 1
     /\ Len(error_messages) = 1
     /\ error_messages[1] = [reqId |-> gw_reqs[1].reqId, errorCode |-> PacingCode]
     /\ gw_reqs[1].sent = 0
     /\ ~gw_reqs[1].done)
    => Len(gw_reqs) >= 2

\* every request issued was completed with exactly PageLimit records
AllPagesFull == \A i \in 1..Len(gw_reqs) : Completed(i, PageLimit)

C7_TwoPageWalk ==
    (/\ pc = "done"
     /\ NoFault
     /\ Len(gw_reqs) >= 2
     /\ Completed(1, PageLimit)
     /\ MinTime(TicksOf(gw_reqs[1].reqId)) > start_date
     /\ gw_reqs[2].done
     /\ gw_reqs[2].sent < PageLimit)
    => /\ Len(gw_reqs) = 2
       /\ gw_reqs[2].endTime = MinTime(TicksOf(gw_reqs[1].reqId)) - 1
       /\ Len(A3_Result) = PageLimit + gw_reqs[2].sent
       /\ NonDecreasing(A3_Result)
       /\ ReportedComplete

\* the gateway has delivered the completion of the request being waited for
CurrentCompleted == \E i \in 1..Len(gw_reqs) : gw_reqs[i].reqId = req_id /\ gw_reqs[i].done

\* the loop is about to end on a completed short page or on the start boundary
EndsNaturally ==
    /\ pc = "process"
    /\ CurrentCompleted
    /\ \/ A3_ShortPage(PageTicks)
       \/ A3_PastStart(MinTime(PageTicks) - 1)

\* C8 (as claimed): whenever the loop ends, it is reported complete exactly
\* when it ended on a completed short page or on the start boundary.
C8_CompletenessReport ==
    [][(pc # "done" /\ pc' = "done") => (ReportedComplete' <=> EndsNaturally)]_vars

\* C9 (as claimed): the paging operation never raises to its caller.
C9_NoFailureEscapes == pc # "raised"

\* C10 (as claimed): an error notification with the pacing code 162 that
\* arrives while the collector waits for a page does not release the wait.
C10_PacingKeepsPending ==
    [][(/\ pc = "wait"
        /\ Len(error_messages') = Len(error_messages) + 1
        /\ error_messages'[Len(error_messages')].errorCode = PacingCode)
       => request_complete' = request_complete]_vars

\* an error notification with this code is delivered in this step
ErrorDelivered(errorCode) ==
    /\ Len(error_messages') = Len(error_messages) + 1
    /\ error_messages'[Len(error_messages')].errorCode = errorCode

\* C11 (as claimed): an error notification with the terminal code 200 for the
\* request the collector is waiting on releases the wait (the collector is
\* unblocked before the timeout elapses).
C11_TerminalErrorEndsWait ==
    [][(/\ pc = "wait"
        /\ ErrorDelivered(TerminalCode)
        /\ error_messages'[Len(error_messages')].reqId = req_id)
       => request_complete']_vars

\* C12 (as claimed): an error notification with the informational code 2104
\* that arrives during a wait changes no paging state; in particular it leaves
\* the completion event, and with it the pending wait, as it was.
C12_InformationalNoOp ==
    [][(pc = "wait" /\ ErrorDelivered(InfoCode))
       => UNCHANGED <<gwVars, historical_ticks, request_complete, loopVars, extVars>>]_vars

\* a completion notification (historicalDataEnd, a "finished" bar, or the done
\* flag of a tick callback) for request i is delivered in this step
CompletionDelivered(i) ==
    /\ Len(gw_reqs') = Len(gw_reqs)
    /\ \/ gw_reqs'[i].done /\ ~gw_reqs[i].done
       \/ gw_reqs'[i].fin /\ ~gw_reqs[i].fin

\* request i was resolved earlier: the collector has gone on to a later request
Resolved(i) == i < Len(gw_reqs)

\* C13 (as claimed): a completion notification for a request resolved earlier
\* (timed out or completed) that arrives while the collector waits for a later
\* request leaves the completion event, and with it the later wait, as it was.
C13_LateCompletionNoOp ==
    [][(\A i \in 1..Len(gw_reqs) :
          (pc = "wait" /\ Resolved(i) /\ CompletionDelivered(i))
          => request_complete' = request_complete)]_vars

\* request i is outstanding: it is the request the collector is waiting on and
\* no completion notification for it has arrived
Outstanding(i) ==
    /\ pc = "wait"
    /\ i = Len(gw_reqs)
    /\ ~gw_reqs[i].done
    /\ ~gw_reqs[i].fin

\* C16 (as claimed): every record appended to the accumulation list carries the
\* id of a request that is outstanding (issued, not completed, not timed out)
\* at the moment of the append.
C16_RecordProvenance ==
    [][Len(historical_bars') > Len(historical_bars)
       => \E i \in 1..Len(gw_reqs) :
            /\ Outstanding(i)
            /\ gw_reqs[i].reqId = historical_bars'[Len(historical_bars')].reqId]_vars

\* C15 (as claimed): every request carries an id strictly greater than the id
\* of every request issued before it, so no two requests share an id.
C15_RequestIdsStrictlyIncrease ==
    \A i \in 1..Len(gw_reqs), j \in 1..Len(gw_reqs) :
        i < j => gw_reqs[i].reqId < gw_reqs[j].reqId

\* C14 (as claimed): every record stored for an instrument was delivered by the
\* gateway for a request that was issued for that instrument.
C14_NoCrossContamination ==
    \A k \in DOMAIN data_storage :
        /\ \A j \in 1..Len(data_storage[k].trades) :
               data_storage[k].trades[j].from_contract = k
        /\ \A j \in 1..Len(data_storage[k].bars) :
               data_storage[k].bars[j].from_contract = k

\* a page request is issued in this step
RequestIssued == Len(gw_reqs') = Len(gw_reqs) + 1

\* C17 (as claimed): no page request is issued while the cooldown that a
\* pacing error started (the 10 s of error()) is still running.
C17_GlobalCooldown ==
    [][RequestIssued => ~cb_sleeping]_vars

\* C18 (as claimed): a page request is issued only when page_num < max_pages
\* and the cursor is strictly later than start_date; no request has an end
\* time at or before start_date.
C18_LoopGuard ==
    [][RequestIssued => (page_num < MaxPages /\ current_end > start_date)]_vars

\* C19 (as claimed): once a wait has returned by timeout, no further page
\* request is issued in that paging loop.
C19_TimeoutEndsLoop ==
    [][(RequestIssued /\ chunk > 0) => success]_vars

\* C20: a page that the gateway completed with fewer than PageLimit records
\* (zero included) is the last page requested, and when the loop has ended all
\* of its records are in the result.
C20_ShortPageEndsWalk ==
    \A i \in 1..Len(gw_reqs) :
        (gw_reqs[i].done /\ gw_reqs[i].sent < PageLimit)
        => /\ i = Len(gw_reqs)
           /\ pc \notin {"begin", "request"}
           /\ pc = "done" =>
                  \A j \in 1..Len(historical_ticks) :
                      historical_ticks[j].reqId = gw_reqs[i].reqId
                      => \E k \in 1..Len(A3_Result) : A3_Result[k] = historical_ticks[j]

\* C20 witness: the loop has ended on a completed page of one record, after a
\* full page, and that record is in the result
C20_Witness ==
    /\ pc = "done"
    /\ Len(gw_reqs) = 2
    /\ Completed(2, PageLimit - 1)
    /\ Len(A3_Result) = 2 * PageLimit - 1

\* the records of s that carry request id r
WithReqId(s, r) == SelectSeq(s, LAMBDA t : t.reqId = r)

\* C21: when the loop has ended, the result holds, for every page the gateway
\* completed, exactly the records the gateway delivered for it, in the order
\* of delivery, also those with a timestamp earlier than start_date.
C21_PagesNeverTruncated ==
    pc = "done" =>
        \A i \in 1..Len(gw_reqs) :
            gw_reqs[i].done =>
                /\ WithReqId(A3_Result, gw_reqs[i].reqId) = TicksOf(gw_reqs[i].reqId)
                /\ Len(TicksOf(gw_reqs[i].reqId)) = gw_reqs[i].sent

\* C21 witness: the loop has stopped at the start boundary after a completed
\* full page and a record earlier than start_date is in the result
C21_Witness ==
    /\ pc = "done"
    /\ exit_log = "boundary"
    /\ Completed(Len(gw_reqs), PageLimit)
    /\ \E k \in 1..Len(A3_Result) : A3_Result[k].time < start_date

IsPrefix(s, t) == Len(s) <= Len(t) /\ SubSeq(t, 1, Len(s)) = s

\* C23: in every step of the loop, the step that leaves it included (timeout,
\* error notification, raise of the request call, short page, start boundary,
\* max_pages), the result after the step begins with the pages accumulated
\* before it, record for record.
C23_PagesSurviveExit ==
    [][IsPrefix(chunk_trades, A3_Result')]_vars

\* C23 witness: the loop was left by a timeout with a full page accumulated,
\* and the page is in the result
C23_Witness ==
    /\ pc = "done"
    /\ exit_log = "timeout"
    /\ Len(A3_Result) >= PageLimit

\* C24 (as claimed): bars are added to the result of the bar loop only for a
\* block whose own request was completed by the gateway, and then all the bars
\* of that request are added.
C24_BarSubWindows ==
    [][all_bbo_bars' # all_bbo_bars
       => LET r == gw_reqs[Len(gw_reqs)]
          IN /\ r.done \/ r.fin
             /\ Len(all_bbo_bars') - Len(all_bbo_bars) = Len(BarsOf(r))]_vars

\* C25 (as claimed): handling an error notification with the pacing code 162
\* returns without suspending the API thread.
C25_NotificationThreadNeverBlocks ==
    [][ErrorDelivered(PacingCode) => ~cb_sleeping']_vars

\* C26 (as claimed): against a gateway that completes every page with exactly
\* PageLimit ticks (no error, no timeout), Activity 1's trade loop has issued
\* 10 page requests when it stops.
C26_A1TenPages ==
    (/\ pc = "done"
     /\ NoFault
     /\ success
     /\ AllPagesFull)
    => Len(gw_reqs) = A1CommentPages

BlocksCovering(d) ==
    {i \in 1..Len(gw_reqs) :
        /\ gw_reqs[i].endTime - gw_reqs[i].days < d
        /\ d <= gw_reqs[i].endTime}

\* C28 (as claimed): when _collect_bbo_minute_data has left its loop, every day
\* of [start_date, end_date] lies in the block of exactly one request: the blocks
\* leave no gap and do not overlap.
C28_BarBlocksPartition ==
    pc = "done" =>
        \A d \in (start_date + 1)..end_date : Cardinality(BlocksCovering(d)) = 1

\* the chunks [current_start, chunk_end] that hold day d (the time from d - 1
\* to d)
ChunksCovering(d) ==
    {k \in 1..Len(trade_chunks) :
        /\ trade_chunks[k].current_start < d
        /\ d <= trade_chunks[k].chunk_end}

\* C29 (as claimed): when _collect_trade_data has left its loop on a window of
\* at most MaxChunks chunks, every day of [start_date, end_date] lies in exactly
\* one chunk: the chunks are disjoint and leave no day out.
C29_TradeChunksCoverWindow ==
    (pc = "done" /\ end_date - start_date <= TdWindow) =>
        \A d \in (start_date + 1)..end_date : Cardinality(ChunksCovering(d)) = 1

\* C30 (as claimed): the end time of each page request of the paging loop is
\* strictly earlier than the end time of the request before it (the gateway
\* of the model returns only ticks at or before the requested end time).
C30_CursorStrictlyDecreases ==
    \A i \in 1..(Len(gw_reqs) - 1) : gw_reqs[i + 1].endTime < gw_reqs[i].endTime

C32_NoLostWakeup ==
    [][/\ (request_complete /\ ~request_complete') => pc = "begin"
       /\ (pc = "wait" /\ CurrentCompleted /\ pc' # "wait")
              => (success' /\ pc' = "process")]_vars

\* the second request was completed and its wait has been released
C32_Witness ==
    /\ pc = "process"
    /\ success
    /\ Len(gw_reqs) = 2
    /\ CurrentCompleted

====
